---- MODULE Spec2Model ----
(***************************************************************************)
(* Model of the file manager of app.py: the file, folder and recycle-bin   *)
(* operations over a prefix-addressed object store (a storage bucket).     *)
(*                                                                         *)
(* A key is the sequence of its '/'-separated segments; the bucket is a    *)
(* function from the keys that hold an object to the object's bytes.       *)
(* Every operation of app.py is one action: it performs the handler's      *)
(* store calls in the handler's order, and any one of them may fail (the   *)
(* fault), which raises inside the handler exactly where the call stands.  *)
(***************************************************************************)
EXTENDS Integers, Sequences, FiniteSets, TLC

VARIABLES
    store,   \* the bucket: key -> bytes, for the keys that hold an object
    pre,     \* the bucket as the last operation found it
    last,    \* the last operation: its name, arguments, fault and result
    moved,   \* history: the file the last change of the bucket moved to the recycle bin
    session, \* st.session_state: logged_in, current_folder, folder_stack, view_mode
    clients, \* the operations of concurrent clients that are under way, step by step
    config   \* the configuration load_config reads: login_password

vars == <<store, pre, last, moved, session, clients, config>>

(***************************************************************************)
(* Bounds of the model.                                                    *)
(***************************************************************************)
MaxObjects == 3     \* objects the bucket holds at most
MaxDepth == 2       \* folder levels below the root

(***************************************************************************)
(* Names.  Every name is a string; NameCodes gives its characters so that  *)
(* startswith('.') and lower() are computed on the characters.             *)
(***************************************************************************)
TRASH == ".trash"
KEEP == ".keep"
CONFIG == "file_manager_config.json"
FolderNames == {"A", ".trash"}
FileNames == {"a.txt", "b.txt"}
EmptyBytes == "empty"
Contents == {"x", "y"}

NameCodes(n) ==
    CASE n = "A"      -> <<65>>
      [] n = "a.txt"  -> <<97, 46, 116, 120, 116>>
      [] n = "b.txt"  -> <<98, 46, 116, 120, 116>>
      [] n = "B.txt"  -> <<66, 46, 116, 120, 116>>
      [] n = "c"      -> <<99>>
      [] n = ".trash" -> <<46, 116, 114, 97, 115, 104>>
      [] n = ".keep"  -> <<46, 107, 101, 101, 112>>
      [] n = "file_manager_config.json" ->
            <<102, 105, 108, 101, 95, 109, 97, 110, 97, 103, 101, 114, 95,
              99, 111, 110, 102, 105, 103, 46, 106, 115, 111, 110>>

\* name.startswith('.')
StartsWithDot(n) == NameCodes(n)[1] = 46

\* name.lower(), on the characters
Lower(codes) ==
    [i \in DOMAIN codes |->
        IF codes[i] >= 65 /\ codes[i] <= 90 THEN codes[i] + 32 ELSE codes[i]]

\* s < t for two strings, as Python compares them (by code point)
RECURSIVE StrLess(_, _)
StrLess(s, t) ==
    IF t = <<>> THEN FALSE
    ELSE IF s = <<>> THEN TRUE
    ELSE IF Head(s) # Head(t) THEN Head(s) < Head(t)
    ELSE StrLess(Tail(s), Tail(t))

(***************************************************************************)
(* Keys.                                                                   *)
(***************************************************************************)
ROOT == <<>>

\* f"{folder}/{name}" if folder else name
JoinPath(folder, name) == Append(folder, name)

\* path.split('/')[-1]
LastSegment(path) == path[Len(path)]

\* path.rsplit('/', 1)[0], and "" for a key at the root
ParentOf(path) == SubSeq(path, 1, Len(path) - 1)

IsPrefix(p, k) == Len(p) <= Len(k) /\ SubSeq(k, 1, Len(p)) = p

(***************************************************************************)
(* Keys as the strings the code builds and splits: sequences of characters *)
(* with '/' between the segments.                                          *)
(***************************************************************************)
Slash == 47

\* f"{folder}/{name}" if folder else name, on the characters
JoinStr(folder, name) == IF folder = <<>> THEN name ELSE folder \o <<Slash>> \o name

\* "/".join(stack)
RECURSIVE JoinAll(_)
JoinAll(stack) ==
    IF stack = <<>> THEN <<>>
    ELSE IF Len(stack) = 1 THEN NameCodes(stack[1])
    ELSE JoinAll(SubSeq(stack, 1, Len(stack) - 1)) \o <<Slash>> \o NameCodes(stack[Len(stack)])

\* the positions of the separators of a string
SlashesOf(str) == {i \in DOMAIN str : str[i] = Slash}

Max(S) == CHOOSE m \in S : \A x \in S : x <= m

Min(S) == CHOOSE m \in S : \A x \in S : m <= x

\* str cut in two at position i, the separator left out
CutAt(str, i) == <<SubSeq(str, 1, i - 1), SubSeq(str, i + 1, Len(str))>>

\* a split at the first separator, as split('/', 1) does
RSplitParts_First(str) ==
    IF SlashesOf(str) = {} THEN <<str>> ELSE CutAt(str, Min(SlashesOf(str)))

\* str.rsplit('/', 1): the string cut at its last separator
RSplitParts(str) ==
    IF SlashesOf(str) = {} THEN <<str>> ELSE CutAt(str, Max(SlashesOf(str)))

\* folder = parts[0] if len(parts) > 1 else ""
FolderOfParts(parts) == IF Len(parts) > 1 THEN parts[1] ELSE <<>>

(***************************************************************************)
(* The object store client: storage.from_(bucket).<call>.                  *)
(***************************************************************************)
Exists(s, k) == k \in DOMAIN s

Put(s, k, bytes) == [x \in DOMAIN s \cup {k} |-> IF x = k THEN bytes ELSE s[x]]

\* remove([k]): removing a key that holds no object removes nothing
StoreRemove(s, k) == [x \in DOMAIN s \ {k} |-> s[x]]

\* upload(k, bytes): refused when k holds an object, unless upsert is set
UploadOk(s, k, upsert) == upsert \/ ~Exists(s, k)

\* names of the immediate children of prefix p that are objects (they have an id)
ChildFiles(s, p) == {k[Len(p) + 1] : k \in {x \in DOMAIN s : IsPrefix(p, x) /\ Len(x) = Len(p) + 1}}

\* names of the immediate children of prefix p that are folders (no id)
ChildFolders(s, p) == {k[Len(p) + 1] : k \in {x \in DOMAIN s : IsPrefix(p, x) /\ Len(x) > Len(p) + 1}}

\* the entries list(p) returns: one per object, one per folder
RawEntries(s, p) ==
    {[name |-> n, isFolder |-> FALSE] : n \in ChildFiles(s, p)}
        \cup {[name |-> n, isFolder |-> TRUE] : n \in ChildFolders(s, p)}

\* list(p) returns its entries by ascending name
RECURSIVE ByName(_)
ByName(entries) ==
    IF entries = {} THEN <<>>
    ELSE LET m == CHOOSE e \in entries :
                    \A f \in entries :
                        \/ StrLess(NameCodes(e.name), NameCodes(f.name))
                        \/ (e.name = f.name /\ (e.isFolder \/ ~f.isFolder))
         IN <<m>> \o ByName(entries \ {m})

StoreList(s, p) == ByName(RawEntries(s, p))

(***************************************************************************)
(* list_files: the entries of a folder, folders first, then by name.       *)
(***************************************************************************)
\* an item whose path is the bare name, without the folder it was listed in
Item_BareName(folder, e) ==
    [name |-> e.name,
     type |-> IF e.isFolder THEN "folder" ELSE "file",
     path |-> <<e.name>>]

\* the dict list_files builds for one entry of the store's listing
Item(folder, e) ==
    [name |-> e.name,
     type |-> IF e.isFolder THEN "folder" ELSE "file",
     path |-> JoinPath(folder, e.name)]

\* a sort key that compares the names as they are, without lower()
SortKeyName_CaseSensitive(x) == NameCodes(x.name)

\* the sort key: (0 if x['type'] == 'folder' else 1, x['name'].lower())
KindRank(x) == IF x.type = "folder" THEN 0 ELSE 1

\* x['name'].lower()
SortKeyName(x) == Lower(NameCodes(x.name))

\* key(x) <= key(y), as Python compares the two tuples
KeyLeq(x, y) ==
    \/ KindRank(x) < KindRank(y)
    \/ KindRank(x) = KindRank(y) /\ ~StrLess(SortKeyName(y), SortKeyName(x))

\* x put into a sorted sequence behind every entry whose key is <= key(x)
RECURSIVE InsertSorted(_, _)
InsertSorted(sorted, x) ==
    IF sorted = <<>> THEN <<x>>
    ELSE IF KeyLeq(sorted[Len(sorted)], x) THEN Append(sorted, x)
    ELSE Append(InsertSorted(SubSeq(sorted, 1, Len(sorted) - 1), x), sorted[Len(sorted)])

\* items.sort(key=...): a stable sort
RECURSIVE SortItems(_)
SortItems(items) ==
    IF items = <<>> THEN <<>>
    ELSE InsertSorted(SortItems(SubSeq(items, 1, Len(items) - 1)), items[Len(items)])

\* list_files(folder): a failing list call leaves items empty
list_files(s, folder, fault) ==
    LET result == IF fault = "list" THEN <<>> ELSE StoreList(s, folder)
    IN SortItems([i \in DOMAIN result |-> Item(folder, result[i])])

\* list_trash(): the entries of .trash whose name has no leading dot
list_trash(s, fault) ==
    LET result == IF fault = "list" THEN <<>> ELSE StoreList(s, <<TRASH>>)
    IN SelectSeq([i \in DOMAIN result |-> Item(<<TRASH>>, result[i])],
                 LAMBDA x : ~StartsWithDot(x.name))

\* a file list that shows everything list_files returns
ShownItems_Unfiltered(s, folder) == list_files(s, folder, "none")

\* a file list that drops the placeholder only, by its name
ShownItems_KeepOnly(s, folder) ==
    SelectSeq(list_files(s, folder, "none"), LAMBDA x : x.name # KEEP)

\* render_file_list: the items shown, without the names with a leading dot
ShownItems(s, folder) ==
    SelectSeq(list_files(s, folder, "none"), LAMBDA x : ~StartsWithDot(x.name))

Range(seq) == {seq[i] : i \in DOMAIN seq}

\* the folders the user can open: the root, and every folder item shown below one
NavFolders(s) ==
    {ROOT} \cup
    {p \in UNION {{SubSeq(k, 1, n) : n \in 1..(Len(k) - 1)} : k \in DOMAIN s} :
        \A i \in DOMAIN p : ~StartsWithDot(p[i])}

\* the file items shown in the folders the user can open
ShownFiles(s) ==
    {x.path : x \in {y \in UNION {Range(ShownItems(s, f)) : f \in NavFolders(s)} : y.type = "file"}}

(***************************************************************************)
(* The operations: each gives the bucket it leaves and whether it reports  *)
(* success.  fault names the store call that fails, "none" when none does. *)
(***************************************************************************)
Outcome(s, ok) == [store |-> s, ok |-> ok, raised |-> FALSE]

\* the function leaves by an exception of its own instead of returning
Raise(s) == [store |-> s, ok |-> FALSE, raised |-> TRUE]

\* an upload_file that gives up when the key is taken
upload_file_NoFallback(s, name, bytes, folder, fault) ==
    LET file_path == JoinPath(folder, name)
    IN IF fault = "upload" \/ ~UploadOk(s, file_path, FALSE) THEN Raise(s)
       ELSE Outcome(Put(s, file_path, bytes), TRUE)

\* an upload_file that returns a failure where the code raises
upload_file_ReturnsFailure(s, name, bytes, folder, fault) ==
    LET file_path == JoinPath(folder, name)
    IN IF fault = "upload" THEN Outcome(s, FALSE)
       ELSE IF UploadOk(s, file_path, FALSE) THEN Outcome(Put(s, file_path, bytes), TRUE)
       ELSE IF fault = "update" THEN Outcome(s, FALSE)
       ELSE Outcome(Put(s, file_path, bytes), TRUE)

\* upload_file(uploaded_file, folder_path): upload, and update when the key is taken
upload_file(s, name, bytes, folder, fault) ==
    LET file_path == JoinPath(folder, name)
    IN IF fault = "upload" THEN Raise(s)
       ELSE IF UploadOk(s, file_path, FALSE) THEN Outcome(Put(s, file_path, bytes), TRUE)
       ELSE IF fault = "update" THEN Raise(s)
       ELSE Outcome(Put(s, file_path, bytes), TRUE)

\* download_file(file_path)
download_file(s, file_path, fault) ==
    IF fault = "download" \/ ~Exists(s, file_path) THEN Raise(s) ELSE Outcome(s, TRUE)

\* delete_file(file_path)
delete_file(s, file_path, fault) ==
    IF fault = "remove" THEN Outcome(s, FALSE) ELSE Outcome(StoreRemove(s, file_path), TRUE)

\* the key rename_file writes: the new name in the folder of the old path
RenamePath(old_path, new_name) == JoinPath(ParentOf(old_path), new_name)

\* a rename_file whose upload replaces what the new key holds
rename_file_Upsert(s, old_path, new_name, fault) ==
    IF fault = "download" \/ ~Exists(s, old_path) THEN Outcome(s, FALSE)
    ELSE IF fault = "upload" THEN Outcome(s, FALSE)
    ELSE LET copied == Put(s, RenamePath(old_path, new_name), s[old_path])
         IN IF fault = "remove" THEN Outcome(copied, FALSE)
            ELSE Outcome(StoreRemove(copied, old_path), TRUE)

\* rename_file(old_path, new_name): download, upload without upsert, remove
rename_file(s, old_path, new_name, fault) ==
    IF fault = "download" \/ ~Exists(s, old_path) THEN Outcome(s, FALSE)
    ELSE IF fault = "upload" \/ ~UploadOk(s, RenamePath(old_path, new_name), FALSE)
         THEN Outcome(s, FALSE)
    ELSE LET copied == Put(s, RenamePath(old_path, new_name), s[old_path])
         IN IF fault = "remove" THEN Outcome(copied, FALSE)
            ELSE Outcome(StoreRemove(copied, old_path), TRUE)

\* a create_folder that clears the folder before it writes the placeholder
create_folder_Replacing(s, folder_name, parent_folder, fault) ==
    LET folder_path == JoinPath(parent_folder, folder_name)
        placeholder_path == JoinPath(folder_path, KEEP)
        cleared == [x \in {k \in DOMAIN s : ~IsPrefix(folder_path, k)} |-> s[x]]
    IN IF fault = "upload" THEN Outcome(s, FALSE)
       ELSE Outcome(Put(cleared, placeholder_path, EmptyBytes), TRUE)

\* create_folder(folder_name, parent_folder)
create_folder(s, folder_name, parent_folder, fault) ==
    LET folder_path == JoinPath(parent_folder, folder_name)
        placeholder_path == JoinPath(folder_path, KEEP)
    IN IF fault = "upload" \/ ~UploadOk(s, placeholder_path, FALSE) THEN Outcome(s, FALSE)
       ELSE Outcome(Put(s, placeholder_path, EmptyBytes), TRUE)

\* a loop of remove calls that passes the bare name of each entry
RemovedKeys_NameOnly(prefix, files, n) == {<<files[i].name>> : i \in 1..n}

\* the keys a loop of remove calls takes out: those of the first n entries
RemovedKeys(prefix, files, n) == {JoinPath(prefix, files[i].name) : i \in 1..n}

RemoveEach(s, prefix, files, n) ==
    [x \in DOMAIN s \ RemovedKeys(prefix, files, n) |-> s[x]]

\* delete_folder(folder_path); failAt = i: the i-th remove call fails
delete_folder(s, folder_path, fault, failAt) ==
    LET files == StoreList(s, folder_path)
    IN IF fault = "list" THEN Outcome(s, FALSE)
       ELSE IF fault = "remove" THEN Outcome(RemoveEach(s, folder_path, files, failAt - 1), FALSE)
       ELSE Outcome(RemoveEach(s, folder_path, files, Len(files)), TRUE)

\* trash_path = f".trash/{filename}"
TrashPath(file_path) == <<TRASH, LastSegment(file_path)>>

\* a move_to_trash that removes the source before it writes the copy
move_to_trash_RemoveFirst(s, file_path, fault) ==
    IF fault = "download" \/ ~Exists(s, file_path) THEN Outcome(s, FALSE)
    ELSE IF fault = "remove" THEN Outcome(s, FALSE)
    ELSE IF fault = "upload" THEN Outcome(StoreRemove(s, file_path), FALSE)
    ELSE Outcome(StoreRemove(Put(s, TrashPath(file_path), s[file_path]), file_path), TRUE)

\* a move_to_trash that does not look at the outcome of its remove call
move_to_trash_IgnoresRemove(s, file_path, fault) ==
    IF fault = "download" \/ ~Exists(s, file_path) THEN Outcome(s, FALSE)
    ELSE IF fault = "upload" THEN Outcome(s, FALSE)
    ELSE LET copied == Put(s, TrashPath(file_path), s[file_path])
         IN IF fault = "remove" THEN Outcome(copied, TRUE)
            ELSE Outcome(StoreRemove(copied, file_path), TRUE)

\* move_to_trash(file_path)
move_to_trash(s, file_path, fault) ==
    IF fault = "download" \/ ~Exists(s, file_path) THEN Outcome(s, FALSE)
    ELSE IF fault = "upload" \/ ~UploadOk(s, TrashPath(file_path), TRUE) THEN Outcome(s, FALSE)
    ELSE LET copied == Put(s, TrashPath(file_path), s[file_path])
         IN IF fault = "remove" THEN Outcome(copied, FALSE)
            ELSE Outcome(StoreRemove(copied, file_path), TRUE)

\* a restore that uploads to the recycle-bin key itself: the prefix is not split off
RestorePath_Unsplit(trash_path) == trash_path

\* the key restore_from_trash uploads to: filename, at the root
RestorePath(trash_path) == <<LastSegment(trash_path)>>

\* a restore_from_trash whose upload has no upsert option
restore_from_trash_NoUpsert(s, trash_path, fault) ==
    IF fault = "download" \/ ~Exists(s, trash_path) THEN Outcome(s, FALSE)
    ELSE IF fault = "upload" \/ ~UploadOk(s, RestorePath(trash_path), FALSE) THEN Outcome(s, FALSE)
    ELSE LET copied == Put(s, RestorePath(trash_path), s[trash_path])
         IN IF fault = "remove" THEN Outcome(copied, FALSE)
            ELSE Outcome(StoreRemove(copied, trash_path), TRUE)

\* restore_from_trash(trash_path)
restore_from_trash(s, trash_path, fault) ==
    IF fault = "download" \/ ~Exists(s, trash_path) THEN Outcome(s, FALSE)
    ELSE IF fault = "upload" \/ ~UploadOk(s, RestorePath(trash_path), TRUE) THEN Outcome(s, FALSE)
    ELSE LET copied == Put(s, RestorePath(trash_path), s[trash_path])
         IN IF fault = "remove" THEN Outcome(copied, FALSE)
            ELSE Outcome(StoreRemove(copied, trash_path), TRUE)

\* an empty_trash that removes the items list_trash shows, not every entry of .trash
empty_trash_ShownOnly(s, fault, failAt) ==
    LET files == list_trash(s, "none")
    IN IF fault = "list" THEN Outcome(s, FALSE)
       ELSE IF fault = "remove" THEN Outcome(RemoveEach(s, <<TRASH>>, files, failAt - 1), FALSE)
       ELSE Outcome(RemoveEach(s, <<TRASH>>, files, Len(files)), TRUE)

\* empty_trash(); failAt = i: the i-th remove call fails
empty_trash(s, fault, failAt) ==
    LET files == StoreList(s, <<TRASH>>)
    IN IF fault = "list" THEN Outcome(s, FALSE)
       ELSE IF fault = "remove" THEN Outcome(RemoveEach(s, <<TRASH>>, files, failAt - 1), FALSE)
       ELSE Outcome(RemoveEach(s, <<TRASH>>, files, Len(files)), TRUE)

\* the keys empty_trash calls remove on
EmptyTrashAttempted(s, fault, failAt) ==
    LET files == StoreList(s, <<TRASH>>)
    IN IF fault = "list" THEN {}
       ELSE IF fault = "remove" THEN RemovedKeys(<<TRASH>>, files, failAt)
       ELSE RemovedKeys(<<TRASH>>, files, Len(files))

\* permanent_delete_from_trash(trash_path)
permanent_delete_from_trash(s, trash_path, fault) ==
    IF fault = "remove" THEN Outcome(s, FALSE) ELSE Outcome(StoreRemove(s, trash_path), TRUE)

(***************************************************************************)
(* The state machine: the user drives one operation at a time.  A button   *)
(* runs its handler; the script then runs again from the top (Rerun), and  *)
(* the handler's result is gone.                                           *)
(***************************************************************************)
NoArg == <<>>

Record(op, path, name, bytes, fault, failAt, ok, items, attempted) ==
    [op |-> op, path |-> path, name |-> name, bytes |-> bytes, fault |-> fault,
     failAt |-> failAt, ok |-> ok, items |-> items, attempted |-> attempted,
     raised |-> FALSE]

Idle == Record("idle", NoArg, "", "", "none", 0, TRUE, <<>>, {})

NoMove == [key |-> NoArg, bytes |-> ""]

\* the session of a browser that has just opened the page
SessionStart ==
    [logged_in |-> FALSE, current_folder |-> <<>>, folder_stack |-> <<>>, view_mode |-> "files"]

\* no concurrent client has an operation under way
NoClients == <<>>

\* the password of the configuration, and the passwords a user types
LoginPassword == "secret"
Passwords == {"secret", "guess"}

\* the configuration load_config reads when the application starts
ConfigStart == [login_password |-> LoginPassword]

Init ==
    /\ config = ConfigStart
    /\ store = <<>>
    /\ pre = <<>>
    /\ last = Idle
    /\ moved = NoMove
    /\ session = SessionStart
    /\ clients = NoClients

WithinBounds(s) == Cardinality(DOMAIN s) <= MaxObjects

\* render_files_view: the upload button; its handler catches what upload_file raises
UploadFile ==
    /\ last = Idle
    /\ session.logged_in
    /\ UNCHANGED <<session, clients, config>>
    /\ \E name \in FileNames, bytes \in Contents, folder \in NavFolders(store),
           fault \in {"none", "upload", "update"} :
            LET out == upload_file(store, name, bytes, folder, fault)
            IN /\ fault = "update" => Exists(store, JoinPath(folder, name))
               /\ WithinBounds(out.store)
               /\ store' = out.store
               /\ pre' = store
               /\ last' = [Record("upload_file", folder, name, bytes, fault, 0, out.ok, <<>>, {})
                               EXCEPT !.raised = out.raised]
               /\ moved' = NoMove

\* render_files_view: the create-folder button
CreateFolder ==
    /\ last = Idle
    /\ session.logged_in
    /\ UNCHANGED <<session, clients, config>>
    /\ \E folder_name \in FolderNames, parent \in NavFolders(store), fault \in {"none", "upload"} :
            LET out == create_folder(store, folder_name, parent, fault)
            IN /\ Len(parent) < MaxDepth
               /\ WithinBounds(out.store)
               /\ store' = out.store
               /\ pre' = store
               /\ last' = Record("create_folder", parent, folder_name, "", fault, 0, out.ok, <<>>, {})
               /\ moved' = NoMove

\* render_file_item: the delete button of a folder item
DeleteFolder ==
    /\ last = Idle
    /\ session.logged_in
    /\ UNCHANGED <<session, clients, config>>
    /\ \E folder_path \in NavFolders(store) \ {ROOT}, fault \in {"none", "list", "remove"} :
            \E failAt \in IF fault = "remove" THEN 1..Len(StoreList(store, folder_path)) ELSE {0} :
                LET out == delete_folder(store, folder_path, fault, failAt)
                IN /\ store' = out.store
                   /\ pre' = store
                   /\ last' = Record("delete_folder", folder_path, "", "", fault, failAt, out.ok, <<>>, {})
                   /\ moved' = NoMove

\* render_file_item: the delete button of a file item
MoveToTrash ==
    /\ last = Idle
    /\ session.logged_in
    /\ UNCHANGED <<session, clients, config>>
    /\ \E file_path \in ShownFiles(store), fault \in {"none", "download", "upload", "remove"} :
            LET out == move_to_trash(store, file_path, fault)
            IN /\ WithinBounds(out.store)
               /\ store' = out.store
               /\ pre' = store
               /\ last' = Record("move_to_trash", file_path, "", "", fault, 0, out.ok, <<>>, {})
               /\ moved' = IF out.ok THEN [key |-> file_path, bytes |-> store[file_path]] ELSE NoMove

\* render_file_item: the rename form of a file item
RenameFile ==
    /\ last = Idle
    /\ session.logged_in
    /\ UNCHANGED <<session, clients, config>>
    /\ \E file_path \in ShownFiles(store), new_name \in FileNames,
           fault \in {"none", "download", "upload", "remove"} :
            LET out == rename_file(store, file_path, new_name, fault)
            IN /\ new_name # LastSegment(file_path)
               /\ fault = "remove" => UploadOk(store, RenamePath(file_path, new_name), FALSE)
               /\ WithinBounds(out.store)
               /\ store' = out.store
               /\ pre' = store
               /\ last' = Record("rename_file", file_path, new_name, "", fault, 0, out.ok, <<>>, {})
               /\ moved' = NoMove

\* render_trash_view: the restore button of a recycle-bin item
RestoreFromTrash ==
    /\ last = Idle
    /\ session.logged_in
    /\ UNCHANGED <<session, clients, config>>
    /\ \E item \in Range(list_trash(store, "none")), fault \in {"none", "download", "upload", "remove"} :
            LET out == restore_from_trash(store, item.path, fault)
            IN /\ WithinBounds(out.store)
               /\ store' = out.store
               /\ pre' = store
               /\ last' = Record("restore_from_trash", item.path, "", "", fault, 0, out.ok, <<>>, {})
               /\ moved' = IF moved # NoMove /\ item.path = TrashPath(moved.key) THEN moved ELSE NoMove

\* render_trash_view: the delete button of a recycle-bin item
PermanentDelete ==
    /\ last = Idle
    /\ session.logged_in
    /\ UNCHANGED <<session, clients, config>>
    /\ \E item \in Range(list_trash(store, "none")), fault \in {"none", "remove"} :
            LET out == permanent_delete_from_trash(store, item.path, fault)
            IN /\ store' = out.store
               /\ pre' = store
               /\ last' = Record("permanent_delete_from_trash", item.path, "", "", fault, 0, out.ok, <<>>, {})
               /\ moved' = NoMove

\* render_file_manager: the empty button of the recycle bin
EmptyTrash ==
    /\ last = Idle
    /\ session.logged_in
    /\ UNCHANGED <<session, clients, config>>
    /\ \E fault \in {"none", "list", "remove"} :
            \E failAt \in IF fault = "remove" THEN 1..Len(StoreList(store, <<TRASH>>)) ELSE {0} :
                LET out == empty_trash(store, fault, failAt)
                IN /\ store' = out.store
                   /\ pre' = store
                   /\ last' = Record("empty_trash", NoArg, "", "", fault, failAt, out.ok, <<>>,
                                     EmptyTrashAttempted(store, fault, failAt))
                   /\ moved' = NoMove

\* render_file_list: the listing of the folder the user is in
ListFiles ==
    /\ last = Idle
    /\ session.logged_in
    /\ UNCHANGED <<session, clients, config>>
    /\ \E folder \in NavFolders(store), fault \in {"none", "list"} :
            /\ last' = Record("list_files", folder, "", "", fault, 0, TRUE,
                              list_files(store, folder, fault), {})
            /\ pre' = store
            /\ UNCHANGED <<store, moved>>

\* render_file_list: the items the file list shows for a folder
RenderFileList ==
    /\ last = Idle
    /\ session.logged_in
    /\ UNCHANGED <<session, clients, config>>
    /\ \E folder \in NavFolders(store) :
            /\ last' = Record("render_file_list", folder, "", "", "none", 0, TRUE,
                              ShownItems(store, folder), {})
            /\ pre' = store
            /\ UNCHANGED <<store, moved>>

\* a check_password that lets every password in
check_password_AcceptsAll(password) == password \in Passwords

\* check_password(password): compares with the password load_config reads now
check_password(password) == password = config.login_password

\* render_login_page: the login button; a wrong password leaves the session as it is
Login ==
    /\ last = Idle
    /\ ~session.logged_in
    /\ \E password \in Passwords :
            /\ session' = IF check_password(password)
                          THEN [session EXCEPT !.logged_in = TRUE]
                          ELSE session
            /\ last' = Record("login", NoArg, password, "", "none", 0,
                              check_password(password), <<>>, {})
    /\ UNCHANGED <<store, pre, moved, clients, config>>

\* change_password(new_password): rewrites login_password in secrets.json
change_password(cfg, new_password) == [cfg EXCEPT !.login_password = new_password]

\* render_file_manager: the Update Password button of the sidebar
ChangePassword ==
    /\ last = Idle
    /\ session.logged_in
    /\ \E new_password \in Passwords : config' = change_password(config, new_password)
    /\ UNCHANGED <<store, pre, last, moved, session, clients>>

\* a logout that leaves the current folder where it was
logout_KeepsFolder(ss) == [ss EXCEPT !.logged_in = FALSE, !.folder_stack = <<>>]

\* logout(): the logout button of the sidebar
logout(ss) == [ss EXCEPT !.logged_in = FALSE, !.current_folder = <<>>, !.folder_stack = <<>>]

Logout ==
    /\ last = Idle
    /\ session.logged_in
    /\ session' = logout(session)
    /\ UNCHANGED <<store, pre, last, moved, clients, config>>

\* st.rerun(), or the next run of the script: the handler's result is gone
Rerun ==
    /\ last # Idle
    /\ UNCHANGED <<session, clients, config>>
    /\ last' = Idle
    /\ pre' = store
    /\ moved' = IF last.op = "restore_from_trash" THEN NoMove ELSE moved
    /\ UNCHANGED store

Next ==
    \/ UploadFile
    \/ CreateFolder
    \/ DeleteFolder
    \/ MoveToTrash
    \/ RestoreFromTrash
    \/ PermanentDelete
    \/ EmptyTrash
    \/ ListFiles
    \/ RenderFileList
    \/ RenameFile
    \/ Rerun
    \/ Login
    \/ Logout

Spec == Init /\ [][Next]_vars

(***************************************************************************)
(* SpecRestoreRace: NumClients browsers press the restore button of the    *)
(* same recycle-bin item at once.  Each runs restore_from_trash as its     *)
(* three store calls, download, upload with upsert and remove, and the     *)
(* calls of the clients interleave in any order.  No call fails except a   *)
(* download of an object that is gone; moved names the trashed file.       *)
(***************************************************************************)
NumClients == 2

Clients == 1..NumClients

Bystanders == {<<"A", "a.txt">>, <<TRASH, "c">>}

InitRestoreRace ==
    /\ config = ConfigStart
    /\ \E name \in FileNames, bytes \in Contents, held \in Contents \cup {"absent"},
          others \in SUBSET Bystanders :
            LET keys == {<<TRASH, name>>} \cup others
                           \cup (IF held = "absent" THEN {} ELSE {<<name>>})
            IN /\ store = [k \in keys |-> IF k = <<TRASH, name>> THEN bytes
                                          ELSE IF k = <<name>> THEN held ELSE "x"]
               /\ moved = [key |-> <<name>>, bytes |-> bytes]
    /\ pre = store
    /\ last = Idle
    /\ session = [SessionStart EXCEPT !.logged_in = TRUE, !.view_mode = "trash"]
    /\ clients = [c \in Clients |->
                    [pc |-> "download", trash_path |-> TrashPath(moved.key),
                     content |-> "", ok |-> FALSE]]

\* a download that hands out empty content when the object is gone
DownloadStep_EmptyWhenGone(s, client) ==
    IF Exists(s, client.trash_path)
    THEN [client EXCEPT !.pc = "upload", !.content = s[client.trash_path]]
    ELSE [client EXCEPT !.pc = "upload", !.content = EmptyBytes]

\* the download call of restore_from_trash: it fails when the object is gone
DownloadStep(s, client) ==
    IF Exists(s, client.trash_path)
    THEN [client EXCEPT !.pc = "upload", !.content = s[client.trash_path]]
    ELSE [client EXCEPT !.pc = "done", !.ok = FALSE]

RestoreDownload ==
    \E c \in Clients :
        /\ clients[c].pc = "download"
        /\ clients' = [clients EXCEPT ![c] = DownloadStep(store, clients[c])]
        /\ UNCHANGED <<store, pre, last, moved, session, config>>

RestoreUpload ==
    \E c \in Clients :
        /\ clients[c].pc = "upload"
        /\ store' = Put(store, RestorePath(clients[c].trash_path), clients[c].content)
        /\ clients' = [clients EXCEPT ![c].pc = "remove"]
        /\ UNCHANGED <<pre, last, moved, session, config>>

RestoreRemove ==
    \E c \in Clients :
        /\ clients[c].pc = "remove"
        /\ store' = StoreRemove(store, clients[c].trash_path)
        /\ clients' = [clients EXCEPT ![c].pc = "done", ![c].ok = TRUE]
        /\ UNCHANGED <<pre, last, moved, session, config>>

NextRestoreRace ==
    \/ RestoreDownload
    \/ RestoreUpload
    \/ RestoreRemove

SpecRestoreRace == InitRestoreRace /\ [][NextRestoreRace]_vars

(***************************************************************************)
(* SpecTrashRace: one browser presses the delete button of a file while    *)
(* the others press the restore button of the recycle-bin item of the same *)
(* name.  Client 1 runs move_to_trash as its three store calls, the others *)
(* run restore_from_trash as theirs, in any order.  No call fails except a *)
(* download of an object that is gone; moved names the active file.        *)
(***************************************************************************)
Trasher == 1

InitTrashRace ==
    /\ config = ConfigStart
    /\ \E name \in FileNames, folder \in {ROOT, <<"A">>}, bytes \in Contents,
          trashed \in Contents, others \in SUBSET Bystanders :
            LET file_path == JoinPath(folder, name)
                keys == {file_path, <<TRASH, name>>} \cup others
            IN /\ store = [k \in keys |-> IF k = file_path THEN bytes
                                          ELSE IF k = <<TRASH, name>> THEN trashed ELSE "x"]
               /\ moved = [key |-> file_path, bytes |-> bytes]
    /\ pre = store
    /\ last = Idle
    /\ session = [SessionStart EXCEPT !.logged_in = TRUE]
    /\ clients = [c \in Clients |->
                    IF c = Trasher
                    THEN [pc |-> "trash_download", file_path |-> moved.key,
                          content |-> "", ok |-> FALSE]
                    ELSE [pc |-> "download", trash_path |-> TrashPath(moved.key),
                          content |-> "", ok |-> FALSE]]

\* the download call of move_to_trash: it fails when the file is gone
TrashDownload ==
    \E c \in Clients :
        /\ clients[c].pc = "trash_download"
        /\ clients' = [clients EXCEPT ![c] =
                         IF Exists(store, clients[c].file_path)
                         THEN [clients[c] EXCEPT !.pc = "trash_upload",
                                                 !.content = store[clients[c].file_path]]
                         ELSE [clients[c] EXCEPT !.pc = "done", !.ok = FALSE]]
        /\ UNCHANGED <<store, pre, last, moved, session, config>>

\* the upload call of move_to_trash, with upsert
TrashUpload ==
    \E c \in Clients :
        /\ clients[c].pc = "trash_upload"
        /\ store' = Put(store, TrashPath(clients[c].file_path), clients[c].content)
        /\ clients' = [clients EXCEPT ![c].pc = "trash_remove"]
        /\ UNCHANGED <<pre, last, moved, session, config>>

\* the remove call of move_to_trash
TrashRemove ==
    \E c \in Clients :
        /\ clients[c].pc = "trash_remove"
        /\ store' = StoreRemove(store, clients[c].file_path)
        /\ clients' = [clients EXCEPT ![c].pc = "done", ![c].ok = TRUE]
        /\ UNCHANGED <<pre, last, moved, session, config>>

NextTrashRace ==
    \/ TrashDownload
    \/ TrashUpload
    \/ TrashRemove
    \/ RestoreDownload
    \/ RestoreUpload
    \/ RestoreRemove

SpecTrashRace == InitTrashRace /\ [][NextTrashRace]_vars

(***************************************************************************)
(* SpecAuth: the interface with the password of the configuration as part  *)
(* of the state.  Everything the interface runs is there, and a logged-in  *)
(* user can change the password; the bucket is kept to MaxAuthObjects      *)
(* objects.                                                                *)
(***************************************************************************)
MaxAuthObjects == 1

\* the step leaves the bucket within the bound of this specification
AuthBounded == Cardinality(DOMAIN store') <= MaxAuthObjects

NextAuth ==
    \/ UploadFile /\ AuthBounded
    \/ CreateFolder /\ AuthBounded
    \/ DeleteFolder /\ AuthBounded
    \/ MoveToTrash /\ AuthBounded
    \/ RestoreFromTrash /\ AuthBounded
    \/ PermanentDelete /\ AuthBounded
    \/ EmptyTrash /\ AuthBounded
    \/ ListFiles /\ AuthBounded
    \/ RenderFileList /\ AuthBounded
    \/ RenameFile /\ AuthBounded
    \/ Rerun /\ AuthBounded
    \/ Login /\ AuthBounded
    \/ Logout /\ AuthBounded
    \/ ChangePassword /\ AuthBounded

SpecAuth == Init /\ [][NextAuth]_vars

(***************************************************************************)
(* SpecCalls: the storage functions called directly.  On top of what the   *)
(* interface runs, download_file and delete_file, which no handler calls,  *)
(* are applied to a key of the bucket or to a key that is not there.       *)
(***************************************************************************)
MissingKey == <<"b.txt">>

CallKeys(s) == DOMAIN s \cup {MissingKey}

DownloadFile ==
    /\ last = Idle
    /\ UNCHANGED <<session, clients, config>>
    /\ \E file_path \in CallKeys(store), fault \in {"none", "download"} :
            LET out == download_file(store, file_path, fault)
            IN /\ last' = [Record("download_file", file_path, "",
                                  IF out.ok THEN store[file_path] ELSE "",
                                  fault, 0, out.ok, <<>>, {})
                               EXCEPT !.raised = out.raised]
               /\ pre' = store
               /\ UNCHANGED <<store, moved>>

DeleteFile ==
    /\ last = Idle
    /\ UNCHANGED <<session, clients, config>>
    /\ \E file_path \in CallKeys(store), fault \in {"none", "remove"} :
            LET out == delete_file(store, file_path, fault)
            IN /\ store' = out.store
               /\ pre' = store
               /\ last' = Record("delete_file", file_path, "", "", fault, 0, out.ok, <<>>, {})
               /\ moved' = NoMove

NextCalls ==
    \/ Next
    \/ DownloadFile
    \/ DeleteFile

SpecCalls == Init /\ [][NextCalls]_vars

(***************************************************************************)
(* Listings on their own: list_files applied to a bucket that holds any    *)
(* subset of ListingKeys.                                                  *)
(***************************************************************************)
ListingKeys ==
    {<<"a.txt">>, <<"b.txt">>, <<"B.txt">>,
     <<"A", "a.txt">>, <<"A", ".keep">>, <<"A", "c", "b.txt">>,
     <<"c", "B.txt">>, <<".trash", "a.txt">>, <<CONFIG>>}

InitListing ==
    /\ config = ConfigStart
    /\ store \in {[k \in keys |-> IF LastSegment(k) = KEEP THEN EmptyBytes ELSE "x"] :
                    keys \in SUBSET ListingKeys}
    /\ pre = store
    /\ last = Idle
    /\ moved = NoMove
    /\ session = [SessionStart EXCEPT !.logged_in = TRUE]
    /\ clients = NoClients

NextListing ==
    \/ ListFiles
    \/ RenderFileList
    \/ Rerun

SpecListing == InitListing /\ [][NextListing]_vars

(***************************************************************************)
(* Paths on their own: the key of a name in a folder, built as list_files  *)
(* and upload_file build it, and split as rename_file splits it.           *)
(***************************************************************************)
MaxSegments == 3    \* segments of a parent path at most

PathNames == {"A", "c", "a.txt"}

PathStacks == UNION {[1..n -> PathNames] : n \in 0..MaxSegments}

InitPath ==
    /\ config = ConfigStart
    /\ store = <<>>
    /\ pre = <<>>
    /\ last = Idle
    /\ moved = NoMove
    /\ session \in {[logged_in |-> TRUE, current_folder |-> JoinAll(stack),
                     folder_stack |-> stack, view_mode |-> "files"] : stack \in PathStacks}
    /\ clients = NoClients

\* the key of name in the current folder, and the parts rename_file splits it into
ResolveSplit ==
    /\ last = Idle
    /\ \E name \in PathNames :
            LET key == JoinStr(session.current_folder, NameCodes(name))
            IN last' = Record("resolve_split", key, name, "", "none", 0, TRUE, RSplitParts(key), {})
    /\ UNCHANGED <<store, pre, moved, session, clients, config>>

NextPath ==
    \/ ResolveSplit
    \/ Rerun

SpecPath == InitPath /\ [][NextPath]_vars

(***************************************************************************)
(* SpecSession: one browser session over a bucket that does not change.    *)
(* The user logs in and out, opens folders, goes back, and switches        *)
(* between the file view and the recycle-bin view.  The values of the      *)
(* session outlive a logout: st.session_state is kept for the browser tab. *)
(***************************************************************************)
InitSession ==
    /\ config = ConfigStart
    /\ store \in {[k \in keys |-> "x"] : keys \in SUBSET ListingKeys}
    /\ pre = store
    /\ last = Idle
    /\ moved = NoMove
    /\ session = SessionStart
    /\ clients = NoClients

\* the key of the folder that a path string names
FolderKey(s, str) == CHOOSE k \in NavFolders(s) : JoinAll(k) = str

\* render_file_item: the button of a folder item of the current folder
EnterFolder ==
    /\ session.logged_in
    /\ session.view_mode = "files"
    /\ Len(session.folder_stack) < MaxSegments
    /\ \E item \in Range(ShownItems(store, FolderKey(store, session.current_folder))) :
            /\ item.type = "folder"
            /\ session' = [session EXCEPT
                             !.folder_stack = Append(@, item.name),
                             !.current_folder = JoinStr(@, NameCodes(item.name))]
    /\ UNCHANGED <<store, pre, last, moved, clients, config>>

\* render_breadcrumb: the Go Back button
GoBack ==
    /\ session.logged_in
    /\ session.view_mode = "files"
    /\ session.folder_stack # <<>>
    /\ LET popped == SubSeq(session.folder_stack, 1, Len(session.folder_stack) - 1)
       IN session' = [session EXCEPT
                        !.folder_stack = popped,
                        !.current_folder = IF popped # <<>> THEN JoinAll(popped) ELSE <<>>]
    /\ UNCHANGED <<store, pre, last, moved, clients, config>>

\* render_file_manager: the View Trash button of the sidebar
ViewTrash ==
    /\ session.logged_in
    /\ session' = [session EXCEPT !.view_mode = "trash"]
    /\ UNCHANGED <<store, pre, last, moved, clients, config>>

\* render_file_manager: the Back to Files button, there in the recycle-bin view
BackToFiles ==
    /\ session.logged_in
    /\ session.view_mode = "trash"
    /\ session' = [session EXCEPT !.view_mode = "files"]
    /\ UNCHANGED <<store, pre, last, moved, clients, config>>

NextSession ==
    \/ Rerun
    \/ Login
    \/ Logout
    \/ EnterFolder
    \/ GoBack
    \/ ViewTrash
    \/ BackToFiles

SpecSession == InitSession /\ [][NextSession]_vars

(***************************************************************************)
(* Properties.                                                             *)
(***************************************************************************)
InTrash(k) == k[1] = TRASH

\* the keys under the folder path p
Under(s, p) == {k \in DOMAIN s : IsPrefix(p, k) /\ Len(k) > Len(p)}

\* s holds bytes at key k
Holds(s, k, bytes) == Exists(s, k) /\ s[k] = bytes

\* the listing of folder has a file entry called name
ListsFile(s, folder, name) ==
    \E x \in Range(list_files(s, folder, "none")) : x.name = name /\ x.type = "file"

\* a restore has just succeeded on the file that was moved to the recycle bin right before
RestoredAfterTrash ==
    /\ last.op = "restore_from_trash"
    /\ last.ok
    /\ moved # NoMove

\* C1 as stated: after move_to_trash(key) and the restore of its recycle-bin key, the
\* listing of the file's original parent folder has the original name, and the original
\* key holds the original bytes.
C1_RestoredIntoOriginalParent ==
    RestoredAfterTrash =>
        /\ ListsFile(store, ParentOf(moved.key), LastSegment(moved.key))
        /\ Holds(store, moved.key, moved.bytes)

\* C1 amended: after move_to_trash(key) and the restore of its recycle-bin key, the
\* listing of the root folder has the original name and the root key of that name holds
\* the original bytes; this is the original parent exactly for a file of the root.
C1_RestoredIntoRoot ==
    RestoredAfterTrash =>
        /\ ListsFile(store, ROOT, LastSegment(moved.key))
        /\ Holds(store, <<LastSegment(moved.key)>>, moved.bytes)
        /\ (ParentOf(moved.key) = ROOT =>
                /\ ListsFile(store, ParentOf(moved.key), LastSegment(moved.key))
                /\ Holds(store, moved.key, moved.bytes))

C1_Witness ==
    /\ RestoredAfterTrash
    /\ ParentOf(moved.key) # ROOT
    /\ Holds(store, <<LastSegment(moved.key)>>, moved.bytes)

\* C2: an operation other than restore, permanent delete and empty trash leaves every
\* object of the recycle bin in the recycle bin, with its own bytes.
C2_TrashedFilesKept ==
    last.op \notin {"restore_from_trash", "permanent_delete_from_trash", "empty_trash"} =>
        \A k \in DOMAIN pre : InTrash(k) => Holds(store, k, pre[k])

\* C3: when move_to_trash's upload succeeds and its remove fails, the operation reports
\* failure and the file's bytes are at the original key and at the recycle-bin key.
C3_FailedRemoveIsReported ==
    (last.op = "move_to_trash" /\ last.fault = "remove") =>
        /\ ~last.ok
        /\ Holds(store, last.path, pre[last.path])
        /\ Holds(store, TrashPath(last.path), pre[last.path])

C3_Witness ==
    /\ last.op = "move_to_trash"
    /\ last.fault = "remove"
    /\ Len(last.path) > 1
    /\ ~Exists(pre, TrashPath(last.path))

\* C4: when no call of empty_trash fails, it reports success and no object is left
\* under .trash, so list_trash returns no items.
C4_EmptyTrashLeavesNothing ==
    (last.op = "empty_trash" /\ last.fault = "none") =>
        /\ last.ok
        /\ \A k \in DOMAIN store : ~InTrash(k)
        /\ list_trash(store, "none") = <<>>

C4_Witness ==
    /\ last.op = "empty_trash"
    /\ last.fault = "none"
    /\ Cardinality({k \in DOMAIN pre : InTrash(k)}) >= 2
    /\ \E k \in DOMAIN store : ~InTrash(k)

\* C5: when a remove call of empty_trash fails, empty_trash has still called remove on
\* every object of the recycle bin, and every other object of the recycle bin is gone.
C5_EmptyTrashAttemptsAll ==
    (last.op = "empty_trash" /\ last.fault = "remove") =>
        /\ last.attempted = {k \in DOMAIN pre : InTrash(k)}
        /\ Cardinality({k \in DOMAIN store : InTrash(k)}) = 1

\* C6: after delete_folder(path) reports success, no key under path holds an object.
C6_DeleteFolderLeavesNothing ==
    (last.op = "delete_folder" /\ last.ok) => Under(store, last.path) = {}

\* C7: create_folder(name, parent) leaves every object of the bucket in place with its
\* bytes, whether it succeeds or fails, and adds no key other than <path>/.keep.
C7_CreateFolderKeepsDescendants ==
    last.op = "create_folder" =>
        /\ \A k \in DOMAIN pre : Holds(store, k, pre[k])
        /\ DOMAIN store \ DOMAIN pre \subseteq {JoinPath(JoinPath(last.path, last.name), KEEP)}

C7_Witness ==
    /\ last.op = "create_folder"
    /\ last.ok
    /\ Under(pre, JoinPath(last.path, last.name)) # {}
    /\ Exists(store, JoinPath(JoinPath(last.path, last.name), KEEP))

\* the folder create_folder is called on holds a file other than the placeholder
FolderHasContent ==
    \E k \in Under(pre, JoinPath(last.path, last.name)) : LastSegment(k) # KEEP

\* C8: create_folder on a folder that holds content reports success when no store call
\* fails for a reason of the store's own, also when it is called a second time.
C8_CreateFolderIdempotent ==
    (last.op = "create_folder" /\ last.fault = "none" /\ FolderHasContent) => last.ok

\* C9: restore_from_trash onto a root key that holds a file succeeds when no store call
\* fails; the root key then holds the trashed bytes and the recycle-bin key is gone.
C9_RestoreOverwrites ==
    (/\ last.op = "restore_from_trash"
     /\ last.fault = "none"
     /\ Exists(pre, RestorePath(last.path))) =>
        /\ last.ok
        /\ Holds(store, RestorePath(last.path), pre[last.path])
        /\ ~Exists(store, last.path)

C9_Witness ==
    /\ last.op = "restore_from_trash"
    /\ last.fault = "none"
    /\ Exists(pre, RestorePath(last.path))
    /\ pre[RestorePath(last.path)] # pre[last.path]
    /\ last.ok

\* the names of a listing, in its order
ItemNames(items) == [i \in DOMAIN items |-> items[i].name]

\* C10: list_files returns every entry of the folder once, every folder before every
\* file, and within a kind by ascending lower-cased name; b.txt(file), A(folder),
\* a.txt(file) come back as A, a.txt, b.txt.
C10_ListingOrder ==
    (last.op = "list_files" /\ last.fault = "none") =>
        /\ Len(last.items) = Cardinality(RawEntries(store, last.path))
        /\ {[name |-> x.name, isFolder |-> x.type = "folder"] : x \in Range(last.items)}
                = RawEntries(store, last.path)
        /\ \A i, j \in DOMAIN last.items :
                i < j =>
                    /\ ~(last.items[i].type = "file" /\ last.items[j].type = "folder")
                    /\ last.items[i].type = last.items[j].type =>
                            ~StrLess(Lower(NameCodes(last.items[j].name)),
                                     Lower(NameCodes(last.items[i].name)))
        /\ (RawEntries(store, last.path) =
                {[name |-> "b.txt", isFolder |-> FALSE], [name |-> "A", isFolder |-> TRUE],
                 [name |-> "a.txt", isFolder |-> FALSE]}
                => ItemNames(last.items) = <<"A", "a.txt", "b.txt">>)

C10_Witness ==
    /\ last.op = "list_files"
    /\ last.fault = "none"
    /\ ItemNames(last.items) = <<"A", "c", "a.txt", "B.txt", "b.txt">>

\* C11: the key of a name in a parent path, split at its last separator, gives back the
\* parent path and the name; the key does not start with a separator and has no two
\* separators in a row.
C11_JoinSplitRoundTrip ==
    last.op = "resolve_split" =>
        /\ FolderOfParts(last.items) = JoinAll(session.folder_stack)
        /\ last.items[Len(last.items)] = NameCodes(last.name)
        /\ last.path[1] # Slash
        /\ \A i \in 1..(Len(last.path) - 1) : ~(last.path[i] = Slash /\ last.path[i + 1] = Slash)

C11_Witness ==
    /\ last.op = "resolve_split"
    /\ Len(session.folder_stack) >= 2
    /\ Len(last.items) = 2

\* the names of the first segments below the folder path p
FirstSegments(s, p) == {k[Len(p) + 1] : k \in Under(s, p)}

C13_ListFilesHidesReserved ==
    (last.op = "list_files" /\ last.fault = "none") =>
        \A x \in Range(last.items) : x.name \notin {TRASH, CONFIG}

\* C13 amended: the file list render_file_list shows has no entry whose name starts with
\* a dot, so none named .trash; an object file_manager_config.json of the root is shown.
C13_ShownListHidesTrash ==
    last.op = "render_file_list" =>
        /\ \A x \in Range(last.items) : x.name # TRASH /\ ~StartsWithDot(x.name)
        /\ (last.path = ROOT /\ Exists(store, <<CONFIG>>)) =>
                \E x \in Range(last.items) : x.name = CONFIG

C13_Witness ==
    /\ last.op = "render_file_list"
    /\ last.path = ROOT
    /\ Exists(store, <<TRASH, "a.txt">>)
    /\ Exists(store, <<CONFIG>>)
    /\ Len(last.items) >= 2

\* the folder p holds the placeholder and nothing else
OnlyPlaceholder(s, p) == Under(s, p) = {JoinPath(p, KEEP)}

\* C19: a folder that holds only .keep is shown as a folder item in the file list of its
\* parent, and its own file list shows nothing.
C19_PlaceholderFolderShownEmpty ==
    \A p \in NavFolders(store) \ {ROOT} :
        (last.op = "render_file_list" /\ OnlyPlaceholder(store, p)) =>
            /\ last.path = ParentOf(p) =>
                    \E x \in Range(last.items) : x.name = LastSegment(p) /\ x.type = "folder"
            /\ last.path = p => last.items = <<>>

C19_Witness ==
    /\ last.op = "render_file_list"
    /\ last.path = <<"A">>
    /\ OnlyPlaceholder(store, <<"A">>)
    /\ last.items = <<>>

\* the storage functions C14 names
StorageFunctions ==
    {"list_files", "upload_file", "download_file", "delete_file", "rename_file",
     "create_folder", "delete_folder", "move_to_trash", "restore_from_trash",
     "empty_trash", "permanent_delete_from_trash"}

\* C14 as stated: whichever store call fails, no exception leaves a storage function.
C14_NoExceptionEscapes ==
    last.op \in StorageFunctions => ~last.raised

\* C14 amended: a failed store call makes upload_file and download_file raise; every
\* other storage function returns a failure (list_files an empty listing), raising nothing.
C14_FailureReturnedOrRaised ==
    (last.op \in StorageFunctions /\ last.fault # "none") =>
        IF last.op \in {"upload_file", "download_file"}
        THEN last.raised /\ store = pre
        ELSE /\ ~last.raised
             /\ IF last.op = "list_files" THEN last.items = <<>> ELSE ~last.ok

C14_Witness ==
    /\ last.op = "upload_file"
    /\ last.fault = "upload"
    /\ last.raised

\* the key the operation recorded in last copies its source to
Destination ==
    CASE last.op = "move_to_trash" -> TrashPath(last.path)
      [] last.op = "restore_from_trash" -> RestorePath(last.path)
      [] last.op = "rename_file" -> RenamePath(last.path, last.name)

\* C15: move_to_trash, restore_from_trash and rename_file write the destination before
\* they remove the source: whichever call fails, the content is at the source or at the
\* destination, and a failed remove leaves it at both.
C15_ContentNeverLost ==
    (last.op \in {"move_to_trash", "restore_from_trash", "rename_file"}
        /\ Exists(pre, last.path)) =>
        /\ \/ Holds(store, last.path, pre[last.path])
           \/ Holds(store, Destination, pre[last.path])
        /\ last.fault \in {"download", "upload"} => store = pre
        /\ last.fault = "remove" =>
                /\ Holds(store, last.path, pre[last.path])
                /\ Holds(store, Destination, pre[last.path])

C15_Witness ==
    /\ last.op = "rename_file"
    /\ last.fault = "remove"
    /\ Holds(store, last.path, pre[last.path])
    /\ Holds(store, RenamePath(last.path, last.name), pre[last.path])
    /\ ~Exists(pre, RenamePath(last.path, last.name))

\* C17: delete_folder(path) changes no key under .trash and no key outside path, and
\* writes nothing: the recycle bin is as it was.
C17_DeleteFolderTouchesOnlyPrefix ==
    last.op = "delete_folder" =>
        /\ DOMAIN store \subseteq DOMAIN pre
        /\ \A k \in DOMAIN pre :
                (InTrash(k) \/ ~IsPrefix(last.path, k)) => Holds(store, k, pre[k])

C17_Witness ==
    /\ last.op = "delete_folder"
    /\ last.ok
    /\ store # pre
    /\ \E k \in DOMAIN pre : InTrash(k)
    /\ \E k \in DOMAIN pre : ~InTrash(k) /\ ~IsPrefix(last.path, k)

\* C18: upload_file on a key that holds an object replaces its content by the update
\* call and succeeds; when a store call fails the bucket is left as it was.
C18_UploadFallsBackToUpdate ==
    last.op = "upload_file" =>
        /\ (last.fault = "none") =>
                /\ last.ok
                /\ Holds(store, JoinPath(last.path, last.name), last.bytes)
                /\ \A k \in DOMAIN pre :
                        k # JoinPath(last.path, last.name) => Holds(store, k, pre[k])
        /\ (last.fault # "none") => (~last.ok /\ store = pre)

C18_Witness ==
    /\ last.op = "upload_file"
    /\ last.fault = "none"
    /\ Exists(pre, JoinPath(last.path, last.name))
    /\ pre[JoinPath(last.path, last.name)] # last.bytes
    /\ Holds(store, JoinPath(last.path, last.name), last.bytes)

\* every client has returned from restore_from_trash
AllReturned == clients # NoClients /\ \A c \in DOMAIN clients : clients[c].pc = "done"

\* C16: when all clients that restore the same trashed object have returned, whatever
\* the order of their store calls, the object is at the destination key with the
\* trashed content and is no longer in the recycle bin.
C16_ConcurrentRestoreConverges ==
    AllReturned =>
        /\ Holds(store, RestorePath(TrashPath(moved.key)), moved.bytes)
        /\ ~Exists(store, TrashPath(moved.key))

\* both clients downloaded before either removed, and both report success
C16_Witness ==
    /\ AllReturned
    /\ \A c \in DOMAIN clients : clients[c].ok
    /\ Exists(pre, moved.key)
    /\ pre[moved.key] # moved.bytes

\* C20 as stated: a session that is logged out has current_folder at the root, an empty
\* folder_stack and view_mode "files".
C20_LogoutResetsSession ==
    ~session.logged_in =>
        /\ session.current_folder = <<>>
        /\ session.folder_stack = <<>>
        /\ session.view_mode = "files"

\* C21 as stated: while and after one client moves a file to the recycle bin and another
\* restores the trashed object of the same name, the file is at its active key or at
\* its trash key.
C21_NeverAbsentFromBoth ==
    clients # NoClients =>
        \/ Exists(store, moved.key)
        \/ Exists(store, RestorePath(TrashPath(moved.key)))
        \/ Exists(store, TrashPath(moved.key))

\* C22: rename_file onto a name that another file of the folder has fails and leaves
\* the bucket as it was; when it succeeds the new key, in the same folder, holds the old
\* content, the old key is gone and every other key is unchanged.
C22_RenameRefusesTakenName ==
    last.op = "rename_file" =>
        /\ Exists(pre, RenamePath(last.path, last.name)) => (~last.ok /\ store = pre)
        /\ last.ok =>
                /\ ParentOf(RenamePath(last.path, last.name)) = ParentOf(last.path)
                /\ Holds(store, RenamePath(last.path, last.name), pre[last.path])
                /\ ~Exists(store, last.path)
                /\ DOMAIN store = (DOMAIN pre \ {last.path}) \cup {RenamePath(last.path, last.name)}
                /\ \A k \in DOMAIN pre \ {last.path} : Holds(store, k, pre[k])

C22_Witness ==
    /\ last.op = "rename_file"
    /\ last.fault = "none"
    /\ Len(last.path) = 2
    /\ Exists(pre, RenamePath(last.path, last.name))
    /\ pre[RenamePath(last.path, last.name)] # pre[last.path]
    /\ ~last.ok

\* C23: in every state of the session current_folder is the names of folder_stack joined
\* with '/', and it is empty exactly when folder_stack is empty.
C23_CurrentFolderIsJoinedStack ==
    /\ session.current_folder = JoinAll(session.folder_stack)
    /\ (session.current_folder = <<>>) <=> (session.folder_stack = <<>>)

C23_Witness ==
    /\ session.logged_in
    /\ session.folder_stack = <<"A", "c">>
    /\ session.current_folder = NameCodes("A") \o <<Slash>> \o NameCodes("c")

\* C24: a step that runs a storage operation or changes the bucket starts in a logged-in
\* session, and a session becomes logged in only by a login whose password is the
\* login_password of the configuration at that moment.
C24_LoginGuardsTheStore ==
    [][/\ (last' # last /\ last'.op \notin {"idle", "login"}) => session.logged_in
       /\ store' # store => session.logged_in
       /\ (~session.logged_in /\ session'.logged_in) =>
                (last'.op = "login" /\ last'.name = config.login_password)]_vars

C24_Witness ==
    /\ session.logged_in
    /\ last.op = "login"
    /\ last.name = "guess"
    /\ config.login_password = "guess"
    /\ store # <<>>

====
